---- MODULE Spec2Model ----
(***************************************************************************)
(* A model of the crawl orchestration of web_crawler: Crawler.crawl,       *)
(* Crawler.crawl_page and its helpers, the exponential_backoff retry       *)
(* wrapper, normalize_url, the OpenAI analyzer's batching and the          *)
(* Database's pages and links tables.                                      *)
(*                                                                         *)
(* crawl_page is recursive; the recursive call is the last thing it does   *)
(* and no caller reads its return value, so the call stack together with   *)
(* the loops of crawl and _crawl_child_links is kept as `stack`, the       *)
(* sequence of crawl_page invocations still to be made, in the order the   *)
(* code makes them.  An exception that leaves crawl_page unwinds all of    *)
(* them (neither loop has a try), which empties the stack.                 *)
(*                                                                         *)
(* Crawler takes its db as a constructor argument and calls                *)
(* db.get_existing_urls.  The class Database defines no such method, so    *)
(* with a Database (what __main__ builds) the call raises AttributeError:  *)
(* db_has_existing = FALSE.  The repository's only get_existing_urls is    *)
(* the one written on Crawler (a SELECT over pages); db_has_existing =     *)
(* TRUE is a db object that provides it.                                   *)
(*                                                                         *)
(* Spec is the crawl, SpecLive the crawl with its steps taken whenever     *)
(* they can be.  SpecRL is RateLimiter.wait under any pacing of its        *)
(* callers, SpecRLT the same with the statements of wait interleaved       *)
(* between threads, SpecDB is any sequence of Database.store_page and      *)
(* store_links calls, SpecNorm is normalize_url applied to a url and to    *)
(* its result, SpecGem is extract_json and the Gemini analyzer applied to  *)
(* the texts a model can answer.                                           *)
(***************************************************************************)
EXTENDS Integers, Sequences, FiniteSets, TLC

VARIABLES
    urls,             \* Crawler.urls: the seed list
    max_depth,        \* Crawler.max_depth
    max_pages,        \* Crawler.max_pages
    max_links,        \* Crawler.max_links
    test_mode,        \* Crawler.test_mode
    db_has_existing,  \* whether the db handed to Crawler has get_existing_urls
    visited_urls,     \* Crawler.visited_urls
    pages,            \* table pages: sequence of urls, the id is the index
    links,            \* table links as this connection sees it: sequence of rows
    uncommitted,      \* number of trailing rows of links not yet committed
    stack,            \* crawl_page invocations still to be made
    pc,               \* position inside the current crawl_page invocation
    cur,              \* arguments of the current crawl_page invocation
    attempt,          \* exponential_backoff: calls of _fetch_page made so far
    outcomes,         \* what each of those calls did
    sleeps,           \* the delays the wrapper slept
    page_id,          \* crawl_page local: page_id
    raw_links,        \* crawl_page local: the links extracted (after truncation)
    filtered_links,   \* crawl_page local: new_links, what _filter_new_links kept
    new_links,        \* crawl_page local: limited_new_links
    analyzed_links,   \* crawl_page local: analyzed_links
    classifier_calls, \* classifier requests made by the current invocation
    batches_sent,     \* the batches handed to _analyze_batch, in order
    responses,        \* what the classifier answered for each of them
    failed_calls,     \* the store_links calls that raised, and the rows they wrote
    ret,              \* what the last finished invocation returns
    raised,           \* the exception that left crawl_page, "" if none
    fetch_starts,     \* per url, how often the retry-wrapped fetch was started
    store_page_log,   \* Database: the store_page calls made and the ids returned
    clock,            \* RateLimiter: time(), in ticks
    last_check,       \* RateLimiter.last_check
    tokens,           \* RateLimiter.tokens, in units of 1/interval
    returns,          \* RateLimiter: the times at which the calls of wait returned
    lock,             \* RateLimiter.lock: the thread that holds it, or "free"
    thread_pc,        \* per thread, its position in wait
    thread_now,       \* per thread, wait's local now
    norm_url,         \* normalize_url: the url it is given
    norm_once,        \* normalize_url(norm_url)
    norm_twice,       \* normalize_url(normalize_url(norm_url))
    norm_calls,       \* how many of the two calls have been made
    gem_op,           \* gemini_analyzer: the function called last
    gem_text,         \* gemini_analyzer: the response text it was given
    gem_parsed,       \* gemini_analyzer: what extract_json returned for it
    gem_result,       \* gemini_analyzer: what the function returned
    gem_calls         \* gemini_analyzer: how many calls have been made

vars == << urls, max_depth, max_pages, max_links, test_mode, db_has_existing,
           visited_urls, pages, links, uncommitted, stack, pc, cur, attempt,
           outcomes, sleeps, page_id, raw_links, filtered_links, new_links,
           analyzed_links, classifier_calls, batches_sent, responses,
           failed_calls, ret, raised, fetch_starts, store_page_log, clock,
           last_check, tokens, returns, lock, thread_pc, thread_now, norm_url, norm_once, norm_twice,
           norm_calls, gem_op, gem_text, gem_parsed, gem_result, gem_calls >>

----------------------------------------------------------------------------
(* Bounds of the model *)

MaxDepthBound == 2     \* max_depth ranges over 0 .. MaxDepthBound
MaxPagesBound == 2     \* max_pages ranges over 1 .. MaxPagesBound
MaxLinksBound == 3     \* max_links ranges over 1 .. MaxLinksBound
BATCH_SIZE == 2        \* config.BATCH_SIZE, scaled down

(* Program constants *)

max_retries == 3       \* @exponential_backoff(max_retries=3, ...)
base_delay == 2        \* @exponential_backoff(..., base_delay=2.0)
threshold == 3         \* filter_links(result, threshold=0.3), in tenths
TEST_MAX_LINKS_PER_PAGE == 200

----------------------------------------------------------------------------
(* URLs.  A URL string is kept as what urlparse makes of it: the scheme,   *)
(* the netloc (a host name, in lower or upper case, behind www copies of   *)
(* the prefix "www."), the path and the fragment.  A netloc without prefix *)
(* and without name is the empty netloc.                                   *)

Url(s, w, c, n, p, f) ==
    [scheme |-> s, www |-> w, caps |-> c, name |-> n, path |-> p, frag |-> f]

None == Url("", 0, FALSE, "", "", "")

uA   == Url("https", 0, FALSE, "a", "/", "")    \* https://a.com/
uAw  == Url("https", 1, FALSE, "a", "/", "")    \* https://www.a.com/
uB   == Url("https", 1, FALSE, "b", "/", "")    \* https://www.b.com/
uBp  == Url("https", 1, FALSE, "b", "/p", "")   \* https://www.b.com/p
uBad == Url("htp", 0, FALSE, "", "/invalid-url", "")  \* htp:/invalid-url
uHtp == Url("htp", 0, FALSE, "c", "/", "")             \* htp://c.com/

URLs == {uA, uAw, uB, uBp, uBad, uHtp}

(* bool(parsed.netloc) *)
has_netloc(url) == url.www > 0 \/ url.name # ""

lower_Keeps(url) == url

(* parsed.netloc.lower() *)
lower(url) == [url EXCEPT !.caps = FALSE]

(* normalized_netloc.startswith("www.") *)
startswith_www_Never(url) == FALSE

startswith_www(url) == url.www > 0

normalize_url(url) ==
    IF url.scheme = "" \/ ~has_netloc(url)
    THEN None
    ELSE LET lowered == lower(url)
         IN  IF ~startswith_www(lowered)
             THEN [lowered EXCEPT !.www = @ + 1]
             ELSE lowered

----------------------------------------------------------------------------
(* The web the crawler runs against: what extract_links finds on each      *)
(* page, in document order.  A server answers for its host under every     *)
(* spelling of the host name.                                              *)

Link(u, c) == [url |-> u, context |-> c]

extract_links(base_url) ==
    IF base_url.name = "a"
    THEN << Link(uAw, "a1"), Link(uB, "a2"), Link(uBp, "a3") >>
    ELSE IF base_url.path = "/"
         THEN << Link(uBp, "b1"), Link(uA, "b2") >>
         ELSE << >>

SeedLists ==
    { << uA, uB >>, << uAw, uA >>, << uBad, uHtp, uBp >>, << uB, uBp >>, << uB, uB >> }

----------------------------------------------------------------------------
(* Sequence helpers *)

Min(a, b) == IF a < b THEN a ELSE b

Take(s, n) == SubSeq(s, 1, Min(n, Len(s)))

RECURSIVE SelectLinks(_, _)
SelectLinks(s, keep) ==
    IF s = << >> THEN << >>
    ELSE IF Head(s) \in keep
         THEN << Head(s) >> \o SelectLinks(Tail(s), keep)
         ELSE SelectLinks(Tail(s), keep)

----------------------------------------------------------------------------
(* Database *)

page_id_of(url) ==
    IF \E i \in 1..Len(pages) : pages[i] = url
    THEN CHOOSE i \in 1..Len(pages) : pages[i] = url
    ELSE 0

(* a plain INSERT into a table without the UNIQUE constraint *)
store_page_rows_Insert(url) == Append(pages, url)

(* store_page: INSERT OR IGNORE INTO pages (url UNIQUE), commit *)
store_page_rows(url) ==
    IF page_id_of(url) # 0 THEN pages ELSE Append(pages, url)

(* an id that is no row's: one past the last row *)
store_page_id_Fresh(url) == Len(store_page_rows(url)) + 1

(* store_page: SELECT id FROM pages WHERE url = ?, after the INSERT *)
store_page_id(url) ==
    LET rows == store_page_rows(url)
    IN  CHOOSE i \in 1..Len(rows) :
           rows[i] = url /\ \A j \in 1..(i - 1) : rows[j] # url

(* get_existing_urls: SELECT url FROM pages WHERE url IN (...) *)
get_existing_urls(urls_to_check) ==
    { pages[i] : i \in 1..Len(pages) } \cap urls_to_check

Row(link, id) ==
    [source_page_id |-> id, url |-> link.url,
     relevancy |-> link.relevancy, context |-> link.context]

RECURSIVE Rows(_, _)
Rows(formatted, id) ==
    IF formatted = << >> THEN << >>
    ELSE << Row(Head(formatted), id) >> \o Rows(Tail(formatted), id)

----------------------------------------------------------------------------
(* Crawler helpers *)

DepthGate_Dropped(current_depth) == FALSE

DepthGate_OffByOne(current_depth) == current_depth > max_depth + 1

DepthGate(current_depth) == current_depth > max_depth

FrontierGate_Dropped(url) == FALSE

FrontierGate(url) == url \in visited_urls

(* not all([result.scheme, result.netloc]) *)
InvalidUrlFormat(url) == url.scheme = "" \/ ~has_netloc(url)

_has_reached_page_limit == Cardinality(visited_urls) >= max_pages

_limit_links_for_test_mode_Keeps(raw) == raw

_limit_links_for_test_mode(raw) ==
    IF Len(raw) > max_links THEN SubSeq(raw, 1, max_links) ELSE raw

_filter_new_links(raw) ==
    LET urls_to_check == { raw[i].url : i \in 1..Len(raw) }
        existing_urls == get_existing_urls(urls_to_check)
    IN  SelectLinks(raw, { l \in { raw[i] : i \in 1..Len(raw) } :
                              l.url \notin existing_urls })

_format_links_for_analysis(ls) == ls

_format_links_for_db(analyzed) == analyzed

ShouldRecurse_AtMaxDepth(current_depth) == current_depth <= max_depth

ShouldRecurse(current_depth) == current_depth < max_depth

(* crawl_page hands current_depth + 1 to _crawl_child_links, which hands   *)
(* its own current_depth + 1 to each crawl_page                            *)
ChildDepth(current_depth) == (current_depth + 1) + 1

RECURSIVE _crawl_child_links(_, _)
_crawl_child_links(analyzed, parent_depth) ==
    IF analyzed = << >> THEN << >>
    ELSE LET child_url == Head(analyzed).url
             rest == _crawl_child_links(Tail(analyzed), parent_depth)
         IN  IF child_url = None
             THEN rest
             ELSE << [url |-> child_url, depth |-> ChildDepth(parent_depth),
                      parent |-> parent_depth] >> \o rest

----------------------------------------------------------------------------
(* exponential_backoff *)

(* if attempt == max_retries - 1: raise   (attempt is the loop index) *)
is_last_attempt_Early(i) == i = max_retries - 2

is_last_attempt(i) == i = max_retries - 1

backoff_delay_OneBased(i) == base_delay * (2 ^ (i + 1))

(* delay = base_delay * (2**attempt), attempt counted from 0 *)
backoff_delay(i) == base_delay * (2 ^ i)

(* crawl_page: except Exception around self._fetch_page(url) *)
on_fetch_exception_Propagates == "propagate"

on_fetch_exception == "return_none"

(* _fetch_page: a content type that is not text/html *)
on_non_html_Raises == "raise"

on_non_html == "return_none"

(* crawl_page: except Exception around db.store_links(...) *)
on_store_links_exception_Continues == "continue"

on_store_links_exception == "return_none"

----------------------------------------------------------------------------
(* open_ai_analyzer *)

_prepare_links(ls, tm) ==
    IF tm THEN Take(ls, TEST_MAX_LINKS_PER_PAGE) ELSE ls

RECURSIVE Batches_DropsRemainder(_)
Batches_DropsRemainder(ls) ==
    IF Len(ls) < BATCH_SIZE THEN << >>
    ELSE << Take(ls, BATCH_SIZE) >>
         \o Batches_DropsRemainder(SubSeq(ls, BATCH_SIZE + 1, Len(ls)))

(* for i in range(0, len(links), BATCH_SIZE): links[i : i + BATCH_SIZE] *)
RECURSIVE Batches(_)
Batches(ls) ==
    IF ls = << >> THEN << >>
    ELSE << Take(ls, BATCH_SIZE) >>
         \o Batches(SubSeq(ls, Min(BATCH_SIZE, Len(ls)) + 1, Len(ls)))

(* What the model answers for a batch: an error (exception, empty or       *)
(* malformed text), or one entry per input link with the relevancy, in     *)
(* tenths, of one of these score lists.  The entry's url and context are   *)
(* the text the model wrote: those of the prompt, or, in an answer in the  *)
(* model's own words, its wording of the context and the url it chose.     *)
ScoreLists == { << 9, 2, 5 >>, << 2, 2, 2 >>, << 5, 3, 9 >> }

Responses ==
    { [kind |-> "error", scores |-> << >>, context |-> "echoed", url |-> "echoed"] }
    \cup { [kind |-> "ok", scores |-> sc, context |-> "echoed", url |-> "echoed"] :
             sc \in ScoreLists }
    \cup { [kind |-> "ok", scores |-> << 9, 2, 5 >>, context |-> "reworded",
             url |-> "rewritten"] }

(* the url an answer in the model's own words carries: the site's home     *)
(* page, spelled without www                                               *)
RewrittenUrl == uA

written_url_Input(batch_url, response) == batch_url

(* link["url"] of an entry of the answer: what the model wrote *)
written_url(batch_url, response) ==
    IF response.url = "echoed" THEN batch_url ELSE RewrittenUrl

(* extract_json(response.choices[0].message.content) *)
Scored(batch, response) ==
    [ i \in 1..Len(batch) |->
        [url |-> written_url(batch[i].url, response),
         relevancy |-> response.scores[((i - 1) % Len(response.scores)) + 1],
         context |-> IF response.context = "echoed"
                     THEN batch[i].context ELSE "reworded"] ]

RECURSIVE filter_links_Strict(_)
filter_links_Strict(result) ==
    IF result = << >> THEN << >>
    ELSE IF Head(result).relevancy > threshold
         THEN << Head(result) >> \o filter_links_Strict(Tail(result))
         ELSE filter_links_Strict(Tail(result))

RECURSIVE filter_links(_)
filter_links(result) ==
    IF result = << >> THEN << >>
    ELSE IF Head(result).relevancy >= threshold
         THEN << Head(result) >> \o filter_links(Tail(result))
         ELSE filter_links(Tail(result))

_analyze_batch(batch, response) ==
    IF response.kind = "error" THEN << >>
    ELSE filter_links(Scored(batch, response))

(* one pass of the loop of analyze_page_content: the batch it hands to     *)
(* _analyze_batch and what it gets back                                    *)
Pass(batch, response) ==
    [batch |-> batch, results |-> _analyze_batch(batch, response)]

RECURSIVE AnalyzeFrom_Breaks(_, _, _)
AnalyzeFrom_Breaks(batches, answers, i) ==
    IF i > Len(batches) \/ answers[i].kind = "error" THEN << >>
    ELSE << Pass(batches[i], answers[i]) >>
         \o AnalyzeFrom_Breaks(batches, answers, i + 1)

(* the loop of analyze_page_content from its i-th pass on *)
RECURSIVE AnalyzeFrom(_, _, _)
AnalyzeFrom(batches, answers, i) ==
    IF i > Len(batches) THEN << >>
    ELSE << Pass(batches[i], answers[i]) >>
         \o AnalyzeFrom(batches, answers, i + 1)

(* analyzed_links.extend(analyzed_batch), pass after pass *)
RECURSIVE Extend(_)
Extend(passes) ==
    IF passes = << >> THEN << >>
    ELSE Head(passes).results \o Extend(Tail(passes))

analyze_page_content(ls, answers, tm) ==
    Extend(AnalyzeFrom(Batches(_prepare_links(ls, tm)), answers, 1))

----------------------------------------------------------------------------
(* The state after Crawler(db, test_mode) and the call of crawl() *)

NoCall == [url |-> None, depth |-> 0, parent |-> -1]

Returned(kind, why, c, n) ==
    [kind |-> kind, why |-> why, url |-> c.url, depth |-> c.depth, num_links |-> n]

(* the threads that share the RateLimiter *)
Threads == {"t1", "t2"}

(* RateLimiter.__init__ *)
LimiterInit ==
    /\ clock = 0
    /\ last_check = 0
    /\ tokens = 0
    /\ returns = << >>
    /\ lock = "free"
    /\ thread_pc = [ t \in Threads |-> "out" ]
    /\ thread_now = [ t \in Threads |-> 0 ]

(* a text that holds white space only *)
BlankText == [fence |-> FALSE, kind |-> "blank", links |-> << >>]

(* a Python list *)
PyList(items) == [type |-> "list", key |-> "", items |-> items]

(* a Python dict with one key, whose value is a list *)
PyDict(key, items) == [type |-> "dict", key |-> key, items |-> items]

NoResult == [kind |-> "none", value |-> << >>]

(* no function of gemini_analyzer has been called *)
GeminiIdle ==
    /\ gem_op = ""
    /\ gem_text = BlankText
    /\ gem_parsed = PyList(<< >>)
    /\ gem_result = NoResult
    /\ gem_calls = 0

(* no call of normalize_url is being followed *)
NormalizerIdle ==
    /\ norm_url = None
    /\ norm_once = None
    /\ norm_twice = None
    /\ norm_calls = 0

Init ==
    /\ urls \in SeedLists
    /\ max_depth \in 0..MaxDepthBound
    /\ max_pages \in 1..MaxPagesBound
    /\ max_links \in 1..MaxLinksBound
    /\ test_mode \in BOOLEAN
    /\ db_has_existing \in BOOLEAN
    /\ visited_urls = {}
    /\ pages = << >>
    /\ links = << >>
    /\ uncommitted = 0
    /\ stack = [ i \in 1..Len(urls) |-> [url |-> urls[i], depth |-> 0, parent |-> -1] ]
    /\ pc = "idle"
    /\ cur = NoCall
    /\ attempt = 0
    /\ outcomes = << >>
    /\ sleeps = << >>
    /\ page_id = 0
    /\ raw_links = << >>
    /\ filtered_links = << >>
    /\ new_links = << >>
    /\ analyzed_links = << >>
    /\ classifier_calls = 0
    /\ batches_sent = << >>
    /\ responses = << >>
    /\ failed_calls = << >>
    /\ ret = Returned("none", "", NoCall, 0)
    /\ raised = ""
    /\ fetch_starts = [ u \in URLs |-> 0 ]
    /\ store_page_log = << >>
    /\ LimiterInit
    /\ NormalizerIdle
    /\ GeminiIdle

config == << urls, max_depth, max_pages, max_links, test_mode, db_has_existing >>
store == << pages, links, uncommitted, failed_calls >>
locals == << page_id, raw_links, filtered_links, new_links, analyzed_links,
             classifier_calls, batches_sent, responses >>
retry == << attempt, outcomes, sleeps >>
threads == << lock, thread_pc, thread_now >>
limiter == << clock, last_check, tokens, returns, threads >>
normalizer == << norm_url, norm_once, norm_twice, norm_calls >>
gemini == << gem_op, gem_text, gem_parsed, gem_result, gem_calls >>

(* return from crawl_page *)
Return(kind, why, n) ==
    /\ pc' = "idle"
    /\ ret' = Returned(kind, why, cur, n)
    /\ raised' = raised

(* an exception leaves crawl_page, _crawl_child_links and crawl *)
Raise(e) ==
    /\ pc' = "raised"
    /\ raised' = e
    /\ ret' = Returned("raise", e, cur, 0)

----------------------------------------------------------------------------
pending_after_Same(pending) == pending

(* for url in self.urls (crawl) and for link in analyzed_links             *)
(* (_crawl_child_links): each pass of the loop takes the next entry, the   *)
(* entries after it are what is left                                       *)
pending_after(pending) == Tail(pending)

(* crawl_page, lines 101-116: the next invocation and its gates *)
CrawlPage ==
    /\ pc = "idle"
    /\ stack # << >>
    /\ LET c == Head(stack) IN
        /\ cur' = c
        /\ stack' = pending_after(stack)
        /\ attempt' = 0
        /\ outcomes' = << >>
        /\ sleeps' = << >>
        /\ page_id' = 0
        /\ raw_links' = << >>
        /\ filtered_links' = << >>
        /\ new_links' = << >>
        /\ analyzed_links' = << >>
        /\ classifier_calls' = 0
        /\ batches_sent' = << >>
        /\ responses' = << >>
        /\ raised' = raised
        /\ IF DepthGate(c.depth)
           THEN /\ pc' = "idle"
                /\ ret' = Returned("null", "depth", c, 0)
                /\ UNCHANGED fetch_starts
           ELSE IF FrontierGate(c.url)
           THEN /\ pc' = "idle"
                /\ ret' = Returned("null", "visited", c, 0)
                /\ UNCHANGED fetch_starts
           ELSE IF InvalidUrlFormat(c.url)
           THEN /\ pc' = "idle"
                /\ ret' = Returned("null", "invalid", c, 0)
                /\ UNCHANGED fetch_starts
           ELSE /\ pc' = "fetch"
                /\ ret' = Returned("none", "", c, 0)
                /\ fetch_starts' = [fetch_starts EXCEPT ![c.url] = @ + 1]
    /\ UNCHANGED << config, visited_urls, store >>
    /\ UNCHANGED << store_page_log, limiter, normalizer, gemini >>

(* The exceptions session.get raises: a transient one (requests' Timeout,  *)
(* ConnectionError) or another one (InvalidSchema for an unknown scheme).  *)
ExceptionKinds == {"Timeout", "InvalidSchema"}

(* the exception a failing session.get(url) raises: requests has no        *)
(* connection adapter for a scheme other than http and https               *)
exception_of(url) ==
    IF url.scheme \in {"http", "https"} THEN "Timeout" ELSE "InvalidSchema"

(* exponential_backoff: except exceptions, the parameter's default being   *)
(* (Exception,) and _fetch_page's decorator not naming another             *)
is_retried(e) == e \in ExceptionKinds

(* What one call of _fetch_page can do: return a text/html response,       *)
(* return a text/html response with a status >= 400 (requests makes such   *)
(* a Response false), return None for another content type, or raise.      *)
FetchOutcomes == {"html", "html_error_status", "non_html", "error"}

(* session.get raises InvalidSchema whenever the scheme is unknown *)
FetchOutcomesOf(url) ==
    IF exception_of(url) = "InvalidSchema" THEN {"error"} ELSE FetchOutcomes

(* one pass of the wrapper's loop: a call of _fetch_page and what follows  *)
(* it, up to the return of crawl_page when the fetch gave no response      *)
has_response_Any(o) == o # "error"

(* _fetch_page, lines 70-78, and crawl_page, lines 122-123: the fetch      *)
(* hands a response to crawl_page only for a text/html answer              *)
has_response(o) == o = "html"

FetchAttempt ==
    /\ pc = "fetch"
    /\ attempt < max_retries
    /\ \E o \in FetchOutcomesOf(cur.url) :
        /\ attempt' = attempt + 1
        /\ outcomes' = Append(outcomes, o)
        /\ IF has_response(o)
           THEN /\ pc' = "store_page"
                /\ UNCHANGED << sleeps, ret, raised, stack >>
           ELSE IF o = "html_error_status"
                   \/ (o = "non_html" /\ on_non_html = "return_none")
           THEN /\ Return("null", o, 0)
                /\ UNCHANGED << sleeps, stack >>
           ELSE IF is_last_attempt(attempt)
                   \/ (o = "error" /\ ~is_retried(exception_of(cur.url)))
           THEN /\ UNCHANGED sleeps
                /\ IF on_fetch_exception = "return_none"
                   THEN Return("null", "fetch_failed", 0) /\ UNCHANGED stack
                   ELSE Raise("RequestException") /\ stack' = << >>
           ELSE /\ sleeps' = Append(sleeps, backoff_delay(attempt))
                /\ IF attempt + 1 < max_retries
                   THEN pc' = "fetch" /\ UNCHANGED << ret, raised >>
                   ELSE Return("null", "fetch_failed", 0)
                /\ UNCHANGED stack
    /\ UNCHANGED << config, visited_urls, store, cur, locals, fetch_starts >>
    /\ UNCHANGED << store_page_log, limiter, normalizer, gemini >>

visited_after_store_page_Always(id) == visited_urls \cup {cur.url}

(* crawl_page, lines 129-134: visited_urls after store_page returned id   *)
(* (0 for None): if not page_id: return None, else visited_urls.add(url)  *)
visited_after_store_page(id) ==
    IF id = 0 THEN visited_urls ELSE visited_urls \cup {cur.url}

(* What db.store_page can do: return the page's id, return None (its      *)
(* SELECT found no row), or raise.                                         *)
StorePageOutcomes == {"id", "no_id", "raise"}

(* crawl_page, lines 128-134: db.store_page and visited_urls.add *)
StorePage ==
    /\ pc = "store_page"
    /\ \E stored \in StorePageOutcomes :
        IF stored = "no_id"
        THEN /\ Return("null", "no_page_id", 0)
             /\ visited_urls' = visited_after_store_page(0)
             /\ UNCHANGED << pages, uncommitted, page_id, stack >>
        ELSE IF stored = "id"
        THEN /\ pages' = store_page_rows(cur.url)
             /\ uncommitted' = 0
             /\ page_id' = store_page_id(cur.url)
             /\ visited_urls' = visited_after_store_page(store_page_id(cur.url))
             /\ pc' = "extract"
             /\ UNCHANGED << ret, raised, stack >>
        ELSE /\ Raise("DatabaseError")
             /\ stack' = << >>
             /\ UNCHANGED << pages, uncommitted, page_id, visited_urls >>
    /\ UNCHANGED << config, links, failed_calls, cur, retry, raw_links,
                    filtered_links, new_links, analyzed_links, classifier_calls,
                    batches_sent, responses, fetch_starts >>
    /\ UNCHANGED << store_page_log, limiter, normalizer, gemini >>

(* crawl_page, lines 136-161: parse, extract, truncate, persisted dedup *)
ExtractAndFilter ==
    /\ pc = "extract"
    /\ \E parsed \in BOOLEAN :
        IF ~parsed
        THEN /\ Return("null", "parse", 0)
             /\ UNCHANGED << raw_links, filtered_links, new_links, stack >>
        ELSE LET extracted == extract_links(cur.url)
                 limited == IF test_mode
                            THEN _limit_links_for_test_mode(extracted)
                            ELSE extracted
             IN  /\ raw_links' = limited
                 /\ IF ~db_has_existing
                    THEN /\ Raise("AttributeError")
                         /\ stack' = << >>
                         /\ UNCHANGED << filtered_links, new_links >>
                    ELSE LET found == _filter_new_links(limited) IN
                         /\ filtered_links' = found
                         /\ IF found = << >>
                            THEN /\ Return("result", "no_new_links", 0)
                                 /\ UNCHANGED << new_links, stack >>
                            ELSE /\ new_links' = _format_links_for_analysis(
                                                    Take(found, max_links))
                                 /\ pc' = "analyze"
                                 /\ UNCHANGED << ret, raised, stack >>
    /\ UNCHANGED << config, visited_urls, store, cur, retry, page_id,
                    analyzed_links, classifier_calls, batches_sent, responses,
                    fetch_starts >>
    /\ UNCHANGED << store_page_log, limiter, normalizer, gemini >>

(* crawl_page, lines 163-167: _analyze_links *)
AnalyzeLinks ==
    /\ pc = "analyze"
    /\ LET batches == Batches(_prepare_links(new_links, test_mode)) IN
       \E answers \in [1..Len(batches) -> Responses] :
         LET passes == AnalyzeFrom(batches, answers, 1)
             analyzed == analyze_page_content(new_links, answers, test_mode)
         IN /\ classifier_calls' = Len(passes)
            /\ batches_sent' = [ i \in 1..Len(passes) |-> passes[i].batch ]
            /\ responses' = answers
            /\ analyzed_links' = analyzed
            /\ IF analyzed = << >>
               THEN Return("null", "no_relevant", 0)
               ELSE pc' = "store_links" /\ UNCHANGED << ret, raised >>
    /\ UNCHANGED << config, visited_urls, store, stack, cur, retry, page_id,
                    raw_links, filtered_links, new_links, fetch_starts >>
    /\ UNCHANGED << store_page_log, limiter, normalizer, gemini >>

after_children_Queued(children, pending) == pending \o children

(* _crawl_child_links, lines 326-335: the calls of crawl_page for the      *)
(* children are made one after the other, each returning before the next   *)
(* and all of them before the caller of crawl_page goes on: they come      *)
(* before the invocations that were pending                                *)
after_children(children, pending) == children \o pending

(* crawl_page, lines 171-188: db.store_links, the recursion, the result.   *)
(* fail_at = 0: every INSERT succeeds and the transaction is committed;    *)
(* fail_at = k: the k-th INSERT raises, the rows before it stay in the     *)
(* open transaction of the connection.                                     *)
StoreLinks ==
    /\ pc = "store_links"
    /\ LET formatted == _format_links_for_db(analyzed_links) IN
       \E fail_at \in 0..Len(formatted) :
         IF fail_at = 0
         THEN /\ links' = links \o Rows(formatted, page_id)
              /\ uncommitted' = 0
              /\ UNCHANGED failed_calls
              /\ stack' = IF ShouldRecurse(cur.depth)
                          THEN after_children(
                                   _crawl_child_links(analyzed_links, cur.depth), stack)
                          ELSE stack
              /\ Return("result", "links", Len(analyzed_links))
         ELSE /\ links' = links \o Rows(SubSeq(formatted, 1, fail_at - 1), page_id)
              /\ uncommitted' = uncommitted + (fail_at - 1)
              /\ failed_calls' = Append(failed_calls,
                     [page_id |-> page_id, first |-> Len(links) + 1,
                      count |-> fail_at - 1])
              /\ IF on_store_links_exception = "return_none"
                 THEN /\ Return("null", "store_links", 0)
                      /\ UNCHANGED stack
                 ELSE /\ stack' = IF ShouldRecurse(cur.depth)
                                  THEN after_children(
                                           _crawl_child_links(analyzed_links,
                                                              cur.depth), stack)
                                  ELSE stack
                      /\ Return("result", "links", Len(analyzed_links))
    /\ UNCHANGED << config, visited_urls, pages, cur, retry, locals, fetch_starts >>
    /\ UNCHANGED << store_page_log, limiter, normalizer, gemini >>

(* crawl returns: every seed url has been handed to crawl_page *)
CrawlReturns ==
    /\ pc = "idle"
    /\ stack = << >>
    /\ pc' = "done"
    /\ UNCHANGED << config, visited_urls, store, stack, cur, retry, locals,
                    ret, raised, fetch_starts >>
    /\ UNCHANGED << store_page_log, limiter, normalizer, gemini >>

Next ==
    \/ CrawlPage
    \/ FetchAttempt
    \/ StorePage
    \/ ExtractAndFilter
    \/ AnalyzeLinks
    \/ StoreLinks
    \/ CrawlReturns

Spec == Init /\ [][Next]_vars

----------------------------------------------------------------------------
(* Properties *)

Fetching == pc = "fetch"

Finished == pc \in {"idle", "done"}

StackIndex == 1..Len(stack)

\* C1: no page fetch is ever performed by a crawl_page invocation whose
\* depth argument is greater than max_depth.
C1_NoFetchBeyondMaxDepth ==
    (Fetching \/ attempt > 0) => cur.depth <= max_depth

\* C1 witness: a recursive invocation with depth > max_depth was stopped by
\* the depth gate.
C1_Witness ==
    /\ Finished
    /\ ret.why = "depth"
    /\ ret.depth > max_depth
    /\ cur.parent >= 0
    /\ attempt = 0

\* C2 (as claimed): the number of distinct pages visited is at most
\* max_pages in every reachable state.
C2_VisitedWithinBudget == Cardinality(visited_urls) <= max_pages

\* C3 (as claimed): for every url the retry-wrapped fetch is started at
\* most once in a run, whatever the outcome of earlier invocations.
C3_FetchStartedAtMostOnce == \A u \in URLs : fetch_starts[u] <= 1

\* C3 (amended): the retry-wrapped fetch for a url is never started once
\* that url is in visited_urls.
C3_NoFetchOnceVisited ==
    [][ \A u \in URLs :
          fetch_starts'[u] > fetch_starts[u] => u \notin visited_urls ]_vars

\* C3 witness: a second crawl_page(u) for a visited u returned without a
\* fetch, u having been fetched once.
C3_Witness ==
    /\ Finished
    /\ ret.why = "visited"
    /\ ret.url \in visited_urls
    /\ fetch_starts[ret.url] = 1
    /\ attempt = 0

\* C4 (as claimed): the frontier, the pages table and the result all use
\* the normalized url: no fetch is made for a url whose normalized form is
\* in visited_urls, and the url visited, stored and reported is normalized.
C4_NormalizedEverywhere ==
    /\ Fetching => normalize_url(cur.url) \notin visited_urls
    /\ \A u \in visited_urls : u = normalize_url(u)
    /\ \A i \in 1..Len(pages) : pages[i] = normalize_url(pages[i])
    /\ ret.kind = "result" => ret.url = normalize_url(ret.url)

\* C5 (as claimed): each child crawl_page invocation made for a page
\* processed at depth d receives depth exactly d + 1.
C5_ChildDepthIsParentPlusOne ==
    \A i \in StackIndex :
        stack[i].parent >= 0 => stack[i].depth = stack[i].parent + 1

\* C6: a page processed at depth = max_depth has its relevant links
\* persisted but triggers no recursive crawl: no invocation is ever made or
\* pending on behalf of a page at depth >= max_depth.
C6_NoRecursionAtMaxDepth ==
    /\ \A i \in StackIndex : stack[i].parent < max_depth
    /\ cur.parent < max_depth
    /\ (Finished /\ ret.why = "links") =>
          /\ Len(links) >= ret.num_links
          /\ SubSeq(links, Len(links) - ret.num_links + 1, Len(links))
                = Rows(analyzed_links, page_id)

\* C6 witness: a page at depth = max_depth returned its result with links
\* persisted.
C6_Witness ==
    /\ Finished
    /\ ret.why = "links"
    /\ ret.depth = max_depth
    /\ ret.num_links > 0
    /\ links # << >>

\* C7: the retry wrapper calls the fetch at most max_retries times, stops
\* at the first attempt that does not fail, hands an html response on to
\* the processing of the page, and gives up only after max_retries failures.
C7_RetryWrapper ==
    /\ attempt = Len(outcomes)
    /\ attempt <= max_retries
    /\ \A i \in 1..(Len(outcomes) - 1) : outcomes[i] = "error"
    /\ Fetching => \A i \in 1..Len(outcomes) : outcomes[i] = "error"
    /\ pc \in {"store_page", "extract", "analyze", "store_links"} =>
          /\ outcomes # << >>
          /\ outcomes[Len(outcomes)] = "html"
    /\ ret.why = "fetch_failed" => Len(outcomes) = max_retries

\* C7 witness: the fetch failed twice and succeeded at the third attempt,
\* and the page is being processed.
C7_Witness ==
    /\ pc = "extract"
    /\ outcomes = << "error", "error", "html" >>
    /\ cur.url \in visited_urls

\* C8: when the fetch fails on all max_retries attempts, crawl_page returns
\* null with visited_urls and the store unchanged, no exception leaves it
\* and the invocations still to be made (the next seed url) stay pending.
C8_ExhaustedFetchSkips ==
    [][ (Fetching /\ attempt' = max_retries /\ outcomes'[max_retries] = "error")
          => /\ pc' = "idle"
             /\ ret'.kind = "null"
             /\ raised' = ""
             /\ visited_urls' = visited_urls
             /\ store' = store
             /\ stack' = stack ]_vars

\* C8 witness: a seed's fetch failed three times, crawl_page returned null
\* and the next seed url is about to be crawled.
C8_Witness ==
    /\ pc = "idle"
    /\ ret.why = "fetch_failed"
    /\ outcomes = << "error", "error", "error" >>
    /\ stack # << >>
    /\ Head(stack).parent = -1

\* C9 (as claimed): no exception leaves crawl_page for an ordinary
\* operational failure.
C9_NoExceptionLeavesCrawlPage == raised = ""

AllExtractedHaveStoredLink ==
    \A i \in 1..Len(extract_links(cur.url)) :
        \E j \in 1..Len(links) : links[j].url = extract_links(cur.url)[i].url

\* C10 (as claimed): when every link extracted from a fetched and parsed
\* page already has a stored Link, crawl_page returns the zero-new-links
\* result and the classifier is not invoked.
C10_AllStoredGivesZeroResult ==
    [][ (pc = "extract" /\ pc' # "extract" /\ ret'.why # "parse"
           /\ AllExtractedHaveStoredLink)
          => /\ pc' = "idle"
             /\ ret'.kind = "result"
             /\ ret'.num_links = 0 ]_vars

HasStoredLink(url) == \E j \in 1..Len(links) : links[j].url = url

\* C11 (as claimed): a candidate link whose target url already has a row in
\* the links table is dropped before classification: it is never handed to
\* the classifier and never stored a second time.
C11_StoredLinkNeverResubmitted ==
    /\ pc = "analyze" =>
          \A i \in 1..Len(new_links) : ~HasStoredLink(new_links[i].url)
    /\ \A i, j \in 1..Len(links) : links[i].url = links[j].url => i = j

(* the context extract_links captured for a link of the page a row was     *)
(* stored for                                                              *)
ExtractedContexts(row) ==
    LET found == extract_links(pages[row.source_page_id])
    IN  { found[i].context : i \in { k \in 1..Len(found) : found[k].url = row.url } }

\* C12 (as claimed): the context of every persisted link equals the context
\* captured at extraction time, whatever the classifier returned for it.
C12_StoredContextIsExtractedContext ==
    \A j \in 1..Len(links) : links[j].context \in ExtractedContexts(links[j])

(* the rows of links stored for the page of the current invocation *)
PageRows == SelectSeq(links, LAMBDA row : row.source_page_id = page_id)

(* what the classifier returned for the i-th batch sent *)
Output(i) == Scored(batches_sent[i], responses[i])

(* the places <<batch, position>> of the classifier's results that come    *)
(* from a successful batch and reach the relevancy threshold               *)
Relevant ==
    { p \in (1..Len(batches_sent)) \X (1..BATCH_SIZE) :
        /\ responses[p[1]].kind = "ok"
        /\ p[2] <= Len(batches_sent[p[1]])
        /\ Output(p[1])[p[2]].relevancy >= threshold }

(* the position of a place among the relevant places, in output order *)
Rank(p) ==
    Cardinality({ q \in Relevant :
                    q[1] < p[1] \/ (q[1] = p[1] /\ q[2] <= p[2]) })

\* C13: no link with a relevancy below the threshold is ever persisted, and
\* when crawl_page has stored a page's links, the rows stored for the page
\* are exactly the classifier's results of the successful batches with
\* relevancy >= threshold, in the order the classifier returned them.
C13_PersistedAreRelevantResults ==
    /\ \A j \in 1..Len(links) : links[j].relevancy >= threshold
    /\ (Finished /\ ret.why = "links") =>
          /\ Len(PageRows) = Cardinality(Relevant)
          /\ \A p \in Relevant :
                PageRows[Rank(p)] = Row(Output(p[1])[p[2]], page_id)

\* C13 witness: three candidates went out in two batches, the classifier
\* scored them 0.9, 0.2 and 0.5, and the rows stored for the page are the
\* 0.9 and the 0.5 result.
C13_Witness ==
    /\ Finished
    /\ ret.why = "links"
    /\ Len(batches_sent) = 2
    /\ Len(PageRows) = 2
    /\ PageRows[1].relevancy = 9
    /\ PageRows[2].relevancy = 5
    /\ PageRows[2].url = batches_sent[2][1].url

(* the batches sent, one after the other *)
RECURSIVE Concatenation(_)
Concatenation(bs) ==
    IF bs = << >> THEN << >> ELSE Head(bs) \o Concatenation(Tail(bs))

Sent == pc = "store_links" \/ (Finished /\ ret.why \in {"links", "store_links", "no_relevant"})

\* C14 (as claimed): the batches submitted for a page are each of at most
\* BATCH_SIZE links and their concatenation in submission order equals the
\* deduplicated candidate sequence in its original order.
C14_BatchesPartitionDeduplicated ==
    Sent =>
       /\ \A i \in 1..Len(batches_sent) : Len(batches_sent[i]) <= BATCH_SIZE
       /\ Concatenation(batches_sent) = filtered_links

\* C14 (amended): the batches submitted for a page are each of at least one
\* and at most BATCH_SIZE links, all but the last of exactly BATCH_SIZE, and
\* their concatenation in submission order equals the first max_links (in
\* test mode the first min(max_links, TEST_MAX_LINKS_PER_PAGE)) entries of
\* the deduplicated candidate sequence, in its original order.
C14_BatchesPartitionLimited ==
    Sent =>
       /\ \A i \in 1..Len(batches_sent) :
             /\ Len(batches_sent[i]) >= 1
             /\ Len(batches_sent[i]) <= BATCH_SIZE
             /\ i < Len(batches_sent) => Len(batches_sent[i]) = BATCH_SIZE
       /\ LET n == IF test_mode
                   THEN Min(max_links, TEST_MAX_LINKS_PER_PAGE)
                   ELSE max_links
          IN  Concatenation(batches_sent)
                 = [ i \in 1..Min(n, Len(filtered_links)) |-> filtered_links[i] ]

\* C14 witness: three deduplicated candidates were sent as a batch of two
\* followed by a batch of one.
C14_Witness ==
    /\ pc = "store_links"
    /\ Len(filtered_links) = 3
    /\ Len(batches_sent) = 2
    /\ batches_sent[1] = << filtered_links[1], filtered_links[2] >>
    /\ batches_sent[2] = << filtered_links[3] >>

(* range(0, len(links), BATCH_SIZE): the number of passes of the loop *)
NumBatches(n) == (n + BATCH_SIZE - 1) \div BATCH_SIZE

\* C15: a failed classification batch discards only its own results: every
\* batch of the page is submitted, whichever of them failed, and what the
\* analysis returns is the results of the successful batches in batch order.
C15_FailedBatchDiscardsOnlyItself ==
    Sent =>
       /\ classifier_calls = NumBatches(Len(_prepare_links(new_links, test_mode)))
       /\ Len(batches_sent) = classifier_calls
       /\ Len(responses) = classifier_calls
       /\ Len(analyzed_links) = Cardinality(Relevant)
       /\ \A p \in Relevant : analyzed_links[Rank(p)] = Output(p[1])[p[2]]

\* C15 witness: the first of two batches failed, the second was submitted
\* all the same and its relevant result is what the analysis returned.
C15_Witness ==
    /\ pc = "store_links"
    /\ classifier_calls = 2
    /\ responses[1].kind = "error"
    /\ responses[2].kind = "ok"
    /\ Len(analyzed_links) = 1
    /\ analyzed_links[1].url = batches_sent[2][1].url

\* C17: when db.store_links raises, crawl_page returns null for the page, no
\* exception leaves it and none of the page's links is handed to crawl_page:
\* the invocations still to be made are the ones that were pending before.
C17_StoreFailureReturnsNull ==
    [][ Len(failed_calls') > Len(failed_calls)
          => /\ pc' = "idle"
             /\ ret'.kind = "null"
             /\ ret'.url = cur.url
             /\ raised' = raised
             /\ stack' = stack ]_vars

\* C17 witness: store_links failed for a page below max_depth whose analyzed
\* links would otherwise have been crawled, and crawl_page returned null.
C17_Witness ==
    /\ pc = "idle"
    /\ ret.why = "store_links"
    /\ ret.kind = "null"
    /\ failed_calls # << >>
    /\ failed_calls[Len(failed_calls)].page_id = page_id
    /\ ShouldRecurse(cur.depth)
    /\ _crawl_child_links(analyzed_links, cur.depth) # << >>

(* the rows of links a store_links call that raised had inserted *)
RowsOfFailedCalls ==
    UNION { failed_calls[c].first .. (failed_calls[c].first + failed_calls[c].count - 1) :
              c \in 1..Len(failed_calls) }

(* the rows of links that are committed: every reader of the database sees *)
(* them                                                                    *)
CommittedRows == 1..(Len(links) - uncommitted)

\* C18 (as claimed): store_links is all-or-nothing: no row inserted by a
\* store_links call that failed partway ever becomes visible in the links
\* table, not even after a later successful store_page or store_links: no
\* such row is ever committed.
C18_FailedStoreLeavesNoRow == RowsOfFailedCalls \cap CommittedRows = {}

----------------------------------------------------------------------------
(* RateLimiter, on its own.  Time is counted in ticks, interval ticks make *)
(* one token and tokens is kept in units of 1/interval, so that            *)
(* time_passed / interval is added as time_passed.  The lock makes the     *)
(* calls of wait follow one another: a call is one step.                   *)

max_tokens == 3        \* self.max_tokens = 3
interval == 2          \* self.interval = 60.0 / calls_per_minute, in ticks
MaxWaitCalls == 6      \* calls of wait followed
MaxClock == 8          \* the callers let the clock advance up to here

crawler == << config, visited_urls, store, stack, pc, cur, retry, locals,
              ret, raised, fetch_starts >>

(* a Crawler that is not running *)
CrawlerIdle ==
    /\ urls = << >>
    /\ max_depth = 0
    /\ max_pages = 1
    /\ max_links = 1
    /\ test_mode = FALSE
    /\ db_has_existing = FALSE
    /\ visited_urls = {}
    /\ pages = << >>
    /\ links = << >>
    /\ uncommitted = 0
    /\ failed_calls = << >>
    /\ stack = << >>
    /\ pc = "done"
    /\ cur = NoCall
    /\ attempt = 0
    /\ outcomes = << >>
    /\ sleeps = << >>
    /\ page_id = 0
    /\ raw_links = << >>
    /\ filtered_links = << >>
    /\ new_links = << >>
    /\ analyzed_links = << >>
    /\ classifier_calls = 0
    /\ batches_sent = << >>
    /\ responses = << >>
    /\ ret = Returned("none", "", NoCall, 0)
    /\ raised = ""
    /\ fetch_starts = [ u \in URLs |-> 0 ]

InitRL ==
    /\ CrawlerIdle
    /\ store_page_log = << >>
    /\ LimiterInit
    /\ NormalizerIdle
    /\ GeminiIdle

refill_Uncapped(time_passed) == tokens + time_passed

(* self.tokens = min(self.max_tokens, self.tokens + time_passed / interval) *)
refill(time_passed) == Min(max_tokens * interval, tokens + time_passed)

(* RateLimiter.wait, lines 21-35: what one call does to the limiter *)
wait_once ==
    LET now == clock
        time_passed == now - last_check
        refilled == refill(time_passed)
    IN  /\ IF refilled < interval
           THEN /\ clock' = clock + (interval - refilled)
                /\ tokens' = 0
           ELSE /\ clock' = clock
                /\ tokens' = refilled - interval
        /\ last_check' = now
        /\ returns' = Append(returns, clock')

(* a call of RateLimiter.wait *)
wait ==
    /\ Len(returns) < MaxWaitCalls
    /\ wait_once
    /\ UNCHANGED << threads, crawler, store_page_log, normalizer, gemini >>

(* time passes between two calls of wait *)
Tick ==
    /\ clock < MaxClock
    /\ clock' = clock + 1
    /\ UNCHANGED << last_check, tokens, returns, threads >>
    /\ UNCHANGED << crawler, store_page_log, normalizer, gemini >>

NextRL ==
    \/ wait
    \/ Tick

SpecRL == InitRL /\ [][NextRL]_vars

\* C16 (as claimed): in any time window of length T the number of calls of
\* wait that return within the window is at most max_tokens + T/interval:
\* for the window from the i-th to the j-th return, j - i + 1 returns in
\* returns[j] - returns[i] ticks.
C16_ReturnsWithinBurstPlusRate ==
    \A i, j \in 1..Len(returns) :
        i <= j =>
           (j - i + 1) * interval
              <= max_tokens * interval + (returns[j] - returns[i])

----------------------------------------------------------------------------
(* Database, on its own: any sequence of store_page and store_links calls  *)
(* on one Database object.                                                 *)

MaxDbCalls == 3        \* calls of store_page, and rows or failures of store_links

InitDB ==
    /\ CrawlerIdle
    /\ store_page_log = << >>
    /\ LimiterInit
    /\ NormalizerIdle
    /\ GeminiIdle

dbidle == << config, visited_urls, stack, pc, cur, retry, locals, ret, raised,
             fetch_starts, limiter, normalizer, gemini >>

(* Database.store_page(url), lines 84-102 *)
store_page ==
    /\ Len(store_page_log) < MaxDbCalls
    /\ \E url \in { uA, uAw, uB } :
        /\ pages' = store_page_rows(url)
        /\ uncommitted' = 0
        /\ store_page_log' = Append(store_page_log,
                                    [url |-> url, id |-> store_page_id(url)])
    /\ UNCHANGED << links, failed_calls, dbidle >>

(* the lists of links store_links is given *)
LinkLists ==
    { << [url |-> uB, relevancy |-> 9, context |-> "a2"] >>,
      << [url |-> uB, relevancy |-> 9, context |-> "a2"],
         [url |-> uBp, relevancy |-> 5, context |-> "a3"] >> }

(* Database.store_links(links, page_id), lines 112-149 *)
store_links ==
    /\ Len(links) + Len(failed_calls) < MaxDbCalls
    /\ \E id \in 1..Len(pages), formatted \in LinkLists :
       \E fail_at \in 0..Len(formatted) :
         IF fail_at = 0
         THEN /\ links' = links \o Rows(formatted, id)
              /\ uncommitted' = 0
              /\ UNCHANGED failed_calls
         ELSE /\ links' = links \o Rows(SubSeq(formatted, 1, fail_at - 1), id)
              /\ uncommitted' = uncommitted + (fail_at - 1)
              /\ failed_calls' = Append(failed_calls,
                     [page_id |-> id, first |-> Len(links) + 1,
                      count |-> fail_at - 1])
    /\ UNCHANGED << pages, store_page_log, dbidle >>

NextDB ==
    \/ store_page
    \/ store_links

SpecDB == InitDB /\ [][NextDB]_vars

\* C19: for any sequence of store_page calls the pages table holds at most
\* one row per url, and store_page(u) returns the same id, the id of u's
\* row, every time it is called with the same u.
C19_OneRowAndOneIdPerUrl ==
    /\ \A i, j \in 1..Len(pages) : pages[i] = pages[j] => i = j
    /\ \A a, b \in 1..Len(store_page_log) :
          store_page_log[a].url = store_page_log[b].url
             => store_page_log[a].id = store_page_log[b].id
    /\ \A a \in 1..Len(store_page_log) :
          /\ store_page_log[a].id \in 1..Len(pages)
          /\ pages[store_page_log[a].id] = store_page_log[a].url

\* C19 witness: store_page was called for a url, for another url and for
\* the first url again; the third call returned the id of the first and the
\* table holds two rows.
C19_Witness ==
    /\ Len(store_page_log) = 3
    /\ store_page_log[1].url = store_page_log[3].url
    /\ store_page_log[2].url # store_page_log[1].url
    /\ store_page_log[3].id = 1
    /\ store_page_log[2].id = 2
    /\ Len(pages) = 2

----------------------------------------------------------------------------
(* normalize_url, on its own: applied to a url, and again to its result *)

MaxWww == 2            \* a netloc carries up to MaxWww prefixes "www."

NormInputs ==
    { Url(s, w, c, n, p, f) :
        s \in {"", "http", "https"}, w \in 0..MaxWww, c \in BOOLEAN,
        n \in {"", "a"}, p \in {"", "/p"}, f \in {"", "x"} }

InitNorm ==
    /\ CrawlerIdle
    /\ store_page_log = << >>
    /\ LimiterInit
    /\ norm_url \in NormInputs
    /\ norm_once = None
    /\ norm_twice = None
    /\ norm_calls = 0
    /\ GeminiIdle

(* normalize_url(u) *)
NormalizeOnce ==
    /\ norm_calls = 0
    /\ norm_once' = normalize_url(norm_url)
    /\ norm_calls' = 1
    /\ UNCHANGED << norm_url, norm_twice, crawler, store_page_log, limiter, gemini >>

(* normalize_url(normalize_url(u)), when the first call succeeded *)
NormalizeTwice ==
    /\ norm_calls = 1
    /\ norm_once # None
    /\ norm_twice' = normalize_url(norm_once)
    /\ norm_calls' = 2
    /\ UNCHANGED << norm_url, norm_once, crawler, store_page_log, limiter, gemini >>

NextNorm ==
    \/ NormalizeOnce
    \/ NormalizeTwice

SpecNorm == InitNorm /\ [][NextNorm]_vars

Spellings ==
    { v \in NormInputs :
        /\ v.scheme \in {"http", "https"}
        /\ v.www <= 1
        /\ v.name = norm_url.name
        /\ v.path = norm_url.path
        /\ v.frag = norm_url.frag }

C22_FragmentDropped ==
    (norm_calls >= 1 /\ norm_once # None) =>
       /\ norm_once.frag = ""
       /\ \A v \in NormInputs :
             [v EXCEPT !.frag = norm_url.frag] = norm_url
                => normalize_url(v) = norm_once

\* C23: a response that is not HTML is a skip, not a retry: the attempt
\* that met it is the last request of the invocation, the wrapper does not
\* sleep, and crawl_page returns null without registering a page or marking
\* the url visited.
C23_NonHtmlSkipsWithoutRetry ==
    [][ (Fetching /\ attempt' = attempt + 1
           /\ outcomes'[attempt'] = "non_html")
          => /\ pc' = "idle"
             /\ ret'.kind = "null"
             /\ ret'.url = cur.url
             /\ sleeps' = sleeps
             /\ raised' = raised
             /\ visited_urls' = visited_urls
             /\ store' = store
             /\ stack' = stack ]_vars

\* C23 witness: the first request for a seed met a non-HTML response;
\* crawl_page returned null after that one request, with no page
\* registered and the url not visited.
C23_Witness ==
    /\ pc = "idle"
    /\ ret.why = "non_html"
    /\ outcomes = << "non_html" >>
    /\ attempt = 1
    /\ sleeps = << >>
    /\ cur.url \notin visited_urls
    /\ pages = << >>

\* C24: a url enters visited_urls only after the store has returned a page
\* id for it: every url in visited_urls has a row in the pages table, a url
\* is added only by the step in which store_page returned its id, and a
\* registration that yields no id leaves visited_urls unchanged.
C24_VisitedOnlyAfterPageId ==
    [][ /\ \A u \in visited_urls' : \E i \in 1..Len(pages') : pages'[i] = u
        /\ visited_urls' # visited_urls =>
              /\ pc = "store_page"
              /\ page_id' \in 1..Len(pages')
              /\ pages'[page_id'] = cur.url
              /\ visited_urls' = visited_urls \cup {cur.url}
        /\ (pc = "store_page" /\ pc' # "store_page" /\ page_id' = 0) =>
              visited_urls' = visited_urls ]_vars

\* C24 witness: after one page was registered and visited, store_page
\* returned no id for the next url; crawl_page returned null and the url is
\* not in visited_urls.
C24_Witness ==
    /\ pc = "idle"
    /\ ret.why = "no_page_id"
    /\ page_id = 0
    /\ visited_urls # {}
    /\ cur.url \notin visited_urls

\* C25: a row of pages exists only for a url whose fetch succeeded with an
\* HTML response: rows are added one at a time, by the invocation whose
\* last fetch attempt returned HTML, for its own url, and never by an
\* invocation that the depth, frontier or url-validity gate stops or whose
\* fetch failed or was skipped.
C25_PageOnlyAfterHtmlFetch ==
    [][ pages' # pages =>
          /\ pc = "store_page"
          /\ pages' = Append(pages, cur.url)
          /\ outcomes # << >>
          /\ outcomes[Len(outcomes)] = "html"
          /\ fetch_starts[cur.url] > 0
          /\ cur.depth <= max_depth
          /\ cur.url \notin visited_urls
          /\ cur.url.scheme # ""
          /\ has_netloc(cur.url) ]_vars

\* C25 witness: a seed whose fetch failed, a url stopped by the validity
\* gate or a non-HTML url was passed over without a row, and a page was
\* then registered for the url fetched as HTML.
C25_Witness ==
    /\ pc = "extract"
    /\ Len(pages) = 1
    /\ pages[1] = cur.url
    /\ cur.url = urls[2]
    /\ urls[1] # urls[2]
    /\ outcomes[Len(outcomes)] = "html"

(* the next invocation is one that a gate of crawl_page stops: its depth   *)
(* exceeds max_depth, its url is in visited_urls, or its url has no scheme *)
(* or no netloc                                                            *)
NextCallIsGated ==
    /\ pc = "idle"
    /\ stack # << >>
    /\ \/ Head(stack).depth > max_depth
       \/ Head(stack).url \in visited_urls
       \/ Head(stack).url.scheme = ""
       \/ ~has_netloc(Head(stack).url)

\* C26: a crawl_page invocation stopped by the depth gate, the frontier gate
\* or the url-validity gate returns null and leaves visited_urls and the
\* store unchanged, performing no fetch and no classifier call.
C26_GatedCallHasNoEffect ==
    [][ (NextCallIsGated /\ cur' = Head(stack) /\ stack' = Tail(stack))
          => /\ pc' = "idle"
             /\ ret'.kind = "null"
             /\ ret'.url = Head(stack).url
             /\ raised' = raised
             /\ visited_urls' = visited_urls
             /\ store' = store
             /\ fetch_starts' = fetch_starts
             /\ attempt' = 0
             /\ classifier_calls' = 0 ]_vars

\* C26 witness: crawl_page was called with htp:/invalid-url as the first
\* seed; the url-validity gate returned null, nothing was fetched or stored
\* and the next seed is pending.
C26_Witness ==
    /\ pc = "idle"
    /\ ret.why = "invalid"
    /\ ret.kind = "null"
    /\ cur.url = uBad
    /\ fetch_starts[uBad] = 0
    /\ visited_urls = {}
    /\ pages = << >>
    /\ stack # << >>

(* the attempts of the current invocation that failed with attempts left *)
FailedWithAttemptsLeft ==
    { k \in 1..Len(outcomes) : outcomes[k] = "error" /\ k < max_retries }

\* C27: after its k-th failed attempt, k < max_retries, the retry wrapper
\* sleeps exactly base_delay * 2^(k-1) before attempt k+1; after the final
\* failed attempt it does not sleep and hands the exception to crawl_page.
C27_BackoffDelays ==
    /\ Len(sleeps) = Cardinality(FailedWithAttemptsLeft)
    /\ \A k \in 1..Len(sleeps) :
          /\ k \in FailedWithAttemptsLeft
          /\ sleeps[k] = base_delay * (2 ^ (k - 1))
    /\ (Len(outcomes) = max_retries /\ outcomes[max_retries] = "error") =>
          /\ Len(sleeps) = max_retries - 1
          /\ Finished
          /\ ret.why = "fetch_failed"

\* C27 witness: three attempts failed; the wrapper slept base_delay and
\* 2 * base_delay and gave up after the third without a further sleep.
C27_Witness ==
    /\ outcomes = << "error", "error", "error" >>
    /\ sleeps = << base_delay, 2 * base_delay >>
    /\ ret.why = "fetch_failed"

(* the exceptions that stand for a transient condition *)
Transient == {"Timeout"}

\* C28 (as claimed): only failures from the set of transient conditions are
\* retried by the fetch retry policy: a failure outside that set is the
\* invocation's only attempt and is followed by no sleep and no retry.
C28_OnlyTransientRetried ==
    (outcomes # << >> /\ outcomes[1] = "error"
       /\ exception_of(cur.url) \notin Transient) =>
          /\ attempt = 1
          /\ sleeps = << >>
          /\ ~Fetching

(* a call of wait returns in this step *)
WaitReturns == Len(returns') = Len(returns) + 1

\* C29: wait first refills tokens by the time passed since last_check
\* divided by interval, capped at max_tokens; then with at least one token
\* it takes exactly one and returns without sleeping, otherwise it sleeps
\* exactly interval * (1 - tokens), the time one token takes to accrue, and
\* returns with no token left.  (tokens is kept in units of 1/interval.)
C29_RefillThenConsumeOrSleep ==
    [][ WaitReturns =>
          LET sum == tokens + (clock - last_check)
              refilled == IF sum > max_tokens * interval
                          THEN max_tokens * interval ELSE sum
          IN  /\ returns'[Len(returns')] = clock'
              /\ IF refilled >= interval
                 THEN /\ clock' = clock
                      /\ tokens' = refilled - interval
                 ELSE /\ clock' = clock + (interval - refilled)
                      /\ tokens' = 0 ]_vars

\* C29 witness: after a long pause the bucket was refilled to its cap,
\* max_tokens calls returned at once taking one token each, and the next
\* call slept one interval.
C29_Witness ==
    /\ Len(returns) = max_tokens + 1
    /\ \A k \in 1..max_tokens : returns[k] = MaxClock
    /\ returns[max_tokens + 1] = MaxClock + interval
    /\ tokens = 0

----------------------------------------------------------------------------
(* RateLimiter.wait called by concurrent threads: the statements of wait   *)
(* are steps of the calling thread, interleaved with those of the others.  *)

lock_free_Always == TRUE

(* with self.lock: the lock can be acquired *)
lock_free == lock = "free"

rlidle == << crawler, store_page_log, normalizer, gemini >>

(* line 21: with self.lock *)
Acquire(t) ==
    /\ thread_pc[t] = "out"
    /\ Len(returns) < MaxWaitCalls
    /\ lock_free
    /\ lock' = t
    /\ thread_pc' = [thread_pc EXCEPT ![t] = "refill"]
    /\ UNCHANGED << clock, last_check, tokens, returns, thread_now, rlidle >>

(* lines 22-25: now = time(); the refill *)
Refill(t) ==
    /\ thread_pc[t] = "refill"
    /\ thread_now' = [thread_now EXCEPT ![t] = clock]
    /\ tokens' = refill(clock - last_check)
    /\ thread_pc' = [thread_pc EXCEPT ![t] = "test"]
    /\ UNCHANGED << clock, last_check, returns, lock, rlidle >>

(* line 27: if self.tokens < 1 *)
Test(t) ==
    /\ thread_pc[t] = "test"
    /\ thread_pc' = [thread_pc EXCEPT ![t] =
                        IF tokens < interval THEN "sleep" ELSE "consume"]
    /\ UNCHANGED << clock, last_check, tokens, returns, lock, thread_now, rlidle >>

(* lines 29-31: sleep(self.interval * (1 - self.tokens)); self.tokens = 0 *)
Sleep(t) ==
    /\ thread_pc[t] = "sleep"
    /\ clock' = clock + (IF tokens < interval THEN interval - tokens ELSE 0)
    /\ tokens' = 0
    /\ thread_pc' = [thread_pc EXCEPT ![t] = "finish"]
    /\ UNCHANGED << last_check, returns, lock, thread_now, rlidle >>

(* line 33: self.tokens -= 1 *)
Consume(t) ==
    /\ thread_pc[t] = "consume"
    /\ tokens' = tokens - interval
    /\ thread_pc' = [thread_pc EXCEPT ![t] = "finish"]
    /\ UNCHANGED << clock, last_check, returns, lock, thread_now, rlidle >>

(* line 35: self.last_check = now; the lock is released, wait returns *)
Finish(t) ==
    /\ thread_pc[t] = "finish"
    /\ last_check' = thread_now[t]
    /\ lock' = "free"
    /\ returns' = Append(returns, clock)
    /\ thread_pc' = [thread_pc EXCEPT ![t] = "out"]
    /\ UNCHANGED << clock, tokens, thread_now, rlidle >>

NextRLT ==
    \/ \E t \in Threads : Acquire(t)
    \/ \E t \in Threads : Refill(t)
    \/ \E t \in Threads : Test(t)
    \/ \E t \in Threads : Sleep(t)
    \/ \E t \in Threads : Consume(t)
    \/ \E t \in Threads : Finish(t)
    \/ Tick

SpecRLT == InitRL /\ [][NextRLT]_vars

(* the threads inside the refill/consume/sleep section of wait *)
Inside == { t \in Threads : thread_pc[t] # "out" }

\* C30: under any interleaving of threads calling wait on one RateLimiter,
\* at most one thread at a time is inside the refill/consume/sleep section,
\* it is the holder of the lock, and 0 <= tokens <= max_tokens in every
\* reachable state: no token is taken by two callers.
C30_MutualExclusionAndTokenRange ==
    /\ Cardinality(Inside) <= 1
    /\ \A t \in Threads : t \in Inside <=> lock = t
    /\ tokens >= 0
    /\ tokens <= max_tokens * interval

\* C30 witness: exactly one token is in the bucket, one thread holds the
\* lock and is about to take it, the other thread is outside, after
\* earlier calls have returned.
C30_Witness ==
    /\ lock = "t2"
    /\ thread_pc["t2"] = "consume"
    /\ thread_pc["t1"] = "out"
    /\ tokens = interval
    /\ Len(returns) >= 2

(* the completed acquires of the rate limiter: the calls of                *)
(* RateLimiter.wait that have returned                                     *)
acquires == Len(returns)

\* C31 (as claimed): every classifier call made while crawling is preceded
\* by a rate-limiter acquire for its batch: the number of classifier
\* invocations never exceeds the number of completed acquires.
C31_ClassifierCallsWithinAcquires == classifier_calls <= acquires

(* crawl_page is entered in this step: the next pending invocation starts *)
Enters == pc = "idle" /\ stack # << >> /\ cur' = Head(stack)

(* crawl_page goes into _crawl_child_links in this step *)
Recurses == pc = "store_links" /\ Len(stack') > Len(stack)

\* C32: traversal is sequential and depth-first in classifier-output order.
\* When crawl_page goes into the recursion, all classified links of the page
\* have been written and committed, and its children are the next
\* invocations, in the order of the classified links, before everything
\* that was pending.  When an invocation starts, no pending invocation is
\* deeper than it: nothing is left to do for the descendants of a link that
\* came earlier among its siblings.
C32_DepthFirstInClassifierOrder ==
    [][ /\ Recurses =>
              LET n == Len(analyzed_links) IN
              /\ links' = links \o Rows(analyzed_links, page_id)
              /\ uncommitted' = 0
              /\ Len(stack') = n + Len(stack)
              /\ \A i \in 1..n :
                    /\ stack'[i].url = analyzed_links[i].url
                    /\ stack'[i].depth > cur.depth
              /\ \A i \in 1..Len(stack) : stack'[n + i] = stack[i]
        /\ Enters =>
              \A i \in 1..Len(stack') : stack'[i].depth <= cur'.depth ]_vars

\* C32 witness: the first classified link of a seed page has been fetched,
\* classified and stored, its sibling is the next pending invocation and the
\* next seed waits behind it.
C32_Witness ==
    /\ pc = "idle"
    /\ cur.parent = 0
    /\ ret.why = "links"
    /\ Len(stack) >= 2
    /\ stack[1].parent = 0
    /\ stack[1].depth = cur.depth
    /\ stack[Len(stack)].depth = 0

\* C33: every row of the links table, committed or not, has a
\* source_page_id that is the id of an existing row of the pages table.
C33_LinkSourceIsExistingPage ==
    \A j \in 1..Len(links) : links[j].source_page_id \in 1..Len(pages)

\* C33 witness: links rows have been stored for two different pages.
C33_Witness ==
    /\ Len(links) >= 2
    /\ links[1].source_page_id # links[Len(links)].source_page_id
    /\ Len(pages) >= 2

(* a is b with some entries left out, the others in their order *)
RECURSIVE IsSubsequence(_, _)
IsSubsequence(a, b) ==
    IF a = << >> THEN TRUE
    ELSE IF b = << >> THEN FALSE
    ELSE IF Head(a) = Head(b)
         THEN IsSubsequence(Tail(a), Tail(b))
         ELSE IsSubsequence(a, Tail(b))

(* the page's links have been extracted and filtered *)
Filtered == pc \in {"analyze", "store_links"}
               \/ (Finished /\ ret.why \in {"links", "store_links", "no_relevant",
                                            "no_new_links"})

\* C34: in test mode the candidates kept for a page are the first max_links
\* extracted links in document order, and the persisted dedup works on that
\* prefix; in every mode the classifier receives at most max_links
\* candidates for a page, and they are an order-preserving subsequence of
\* the extracted links.
C34_TruncationAndClassifierInput ==
    /\ Filtered =>
          /\ test_mode =>
                raw_links = [ i \in 1..Min(max_links, Len(extract_links(cur.url)))
                                |-> extract_links(cur.url)[i] ]
          /\ filtered_links = _filter_new_links(raw_links)
          /\ Len(new_links) <= max_links
          /\ IsSubsequence(new_links, extract_links(cur.url))
    /\ Sent =>
          /\ Concatenation(batches_sent) = new_links
          /\ Len(Concatenation(batches_sent)) <= max_links

\* C34 witness: in test mode a page with more extracted links than max_links
\* had its classifier input cut to the first of them, and that input was sent.
C34_Witness ==
    /\ test_mode
    /\ Sent
    /\ Len(extract_links(cur.url)) > max_links
    /\ Len(raw_links) = max_links
    /\ Len(Concatenation(batches_sent)) >= 1
    /\ Len(filtered_links) < Len(raw_links)

----------------------------------------------------------------------------
(* gemini_analyzer and utils.extract_json.  A response text is what the    *)
(* model wrote: maybe inside a markdown code fence, a JSON object with the *)
(* key "links" over a list of entries, a JSON object with another key, a   *)
(* JSON list of entries, something that is no JSON, or white space only.   *)

MaxGemCalls == 2       \* calls of the functions of gemini_analyzer

(* the batch the analyzer is given *)
GemBatch == << Link(uB, "a2"), Link(uBp, "a3") >>

(* the entries the model can write for the batch *)
GemEntries ==
    { [url |-> uB, relevancy |-> 8, context |-> "llm"],
      [url |-> uBp, relevancy |-> 5, context |-> "llm"] }

GemLists ==
    UNION { [1..n -> GemEntries] : n \in 0..Len(GemBatch) }

GemTexts ==
    { [fence |-> f, kind |-> k, links |-> ls] :
        f \in BOOLEAN, k \in {"object", "list"}, ls \in GemLists }
    \cup { [fence |-> f, kind |-> k, links |-> << >>] :
             f \in BOOLEAN, k \in {"object_other", "invalid", "blank"} }

(* re.sub(r"^```(?:json)?|```$", "", text, flags=re.MULTILINE).strip() *)
strip_fence(text) == [text EXCEPT !.fence = FALSE]

(* json.loads(cleaned_text), for a text that is JSON *)
json_loads(text) ==
    IF text.kind = "list" THEN PyList(text.links)
    ELSE IF text.kind = "object" THEN PyDict("links", text.links)
    ELSE PyDict("key", << >>)

(* utils.extract_json, lines 259-278 *)
extract_json(text) ==
    IF text.kind = "blank" THEN PyList(<< >>)
    ELSE LET cleaned_text == strip_fence(text) IN
         IF cleaned_text.kind = "invalid" THEN PyList(<< >>)
         ELSE LET parsed_json == json_loads(cleaned_text) IN
              IF parsed_json.type = "list" THEN parsed_json ELSE PyList(<< >>)

(* bool(parsed): an empty list and an empty dict are false *)
truthy(parsed) == parsed.type = "dict" \/ parsed.items # << >>

(* gemini_analyzer._validate_and_extract_results, lines 111-127 *)
_validate_and_extract_results(parsed) ==
    IF ~truthy(parsed) \/ parsed.type # "dict" \/ parsed.key # "links"
    THEN << >>
    ELSE parsed.items

(* gemini_analyzer._process_batch, lines 90-108, for a response with text *)
_process_batch(batch, text) ==
    LET batch_results == _validate_and_extract_results(extract_json(text))
    IN  [ idx \in 1..Len(batch_results) |->
            [batch_results[idx] EXCEPT !.context = batch[idx].context] ]

(* the names config.py defines for the crawler's limits *)
ConfigNames ==
    { "MAX_DEPTH", "MAX_TOTAL_PAGES", "MAX_LINKS_PER_PAGE", "BATCH_SIZE",
      "TEST_MODE", "TEST_URLS", "TEST_MAX_LINKS_PER_PAGE",
      "TEST_MAX_TOTAL_PAGES", "TEST_MAX_DEPTH" }

(* the names gemini_analyzer reads from config before its first batch:     *)
(* _prepare_links (lines 66-70), then _get_batch_size (line 75)            *)
GeminiConfigReads(tm) ==
    IF tm THEN { "TEST_MAX_LINKS", "TEST_BATCH_SIZE" }
    ELSE { "MAX_LINKS_PER_PAGE", "GEMINI_BATCH_SIZE" }

(* gemini_analyzer.analyze_page_content, lines 32-61, for links that fit   *)
(* into one batch                                                          *)
gemini_analyze_page_content(ls, text, tm) ==
    IF ~(GeminiConfigReads(tm) \subseteq ConfigNames)
    THEN [kind |-> "AttributeError", value |-> << >>]
    ELSE [kind |-> "list", value |-> _process_batch(ls, text)]

limiter_core == << clock, last_check, tokens, returns >>

gemidle == << crawler, store_page_log, threads, normalizer >>

InitGem ==
    /\ CrawlerIdle
    /\ store_page_log = << >>
    /\ LimiterInit
    /\ NormalizerIdle
    /\ GeminiIdle

(* a call of extract_json(text) *)
ExtractJson ==
    /\ gem_calls < MaxGemCalls
    /\ \E text \in GemTexts :
        /\ gem_op' = "extract_json"
        /\ gem_text' = text
        /\ gem_parsed' = extract_json(text)
        /\ gem_result' = NoResult
    /\ gem_calls' = gem_calls + 1
    /\ UNCHANGED << limiter_core, gemidle >>

(* a call of _process_batch whose generate_content returned a text: the    *)
(* rate limiter is acquired first (line 84)                                *)
ProcessBatch ==
    /\ gem_calls < MaxGemCalls
    /\ wait_once
    /\ \E text \in GemTexts :
        /\ gem_op' = "_process_batch"
        /\ gem_text' = text
        /\ gem_parsed' = extract_json(text)
        /\ gem_result' = [kind |-> "list", value |-> _process_batch(GemBatch, text)]
    /\ gem_calls' = gem_calls + 1
    /\ UNCHANGED gemidle

(* a call of gemini_analyzer.analyze_page_content(GemBatch, ..., test_mode) *)
(* whose model would answer text                                           *)
GeminiAnalyze ==
    /\ gem_calls < MaxGemCalls
    /\ \E text \in GemTexts, tm \in BOOLEAN :
        LET result == gemini_analyze_page_content(GemBatch, text, tm) IN
        /\ gem_op' = "analyze_page_content"
        /\ gem_text' = text
        /\ gem_result' = result
        /\ IF result.kind = "list"
           THEN gem_parsed' = extract_json(text) /\ wait_once
           ELSE gem_parsed' = PyList(<< >>) /\ UNCHANGED limiter_core
    /\ gem_calls' = gem_calls + 1
    /\ UNCHANGED gemidle

NextGem ==
    \/ ExtractJson
    \/ ProcessBatch
    \/ GeminiAnalyze

SpecGem == InitGem /\ [][NextGem]_vars

(* the response text is a JSON object with a non-empty "links" list *)
ObjectWithLinks == gem_text.kind = "object" /\ gem_text.links # << >>

\* C35 (as claimed): for a response text that is a JSON object with a
\* non-empty "links" list, bare or inside a code fence, extract_json returns
\* the parsed object, and the batch contributes those entries, in order, to
\* the result of _process_batch and of analyze_page_content.
C35_ObjectWithLinksContributes ==
    (gem_calls > 0 /\ ObjectWithLinks) =>
        /\ gem_op = "extract_json" =>
              gem_parsed = PyDict("links", gem_text.links)
        /\ gem_op \in {"_process_batch", "analyze_page_content"} =>
              /\ gem_result.kind = "list"
              /\ Len(gem_result.value) = Len(gem_text.links)
              /\ \A i \in 1..Len(gem_text.links) :
                    gem_result.value[i].url = gem_text.links[i].url

----------------------------------------------------------------------------
(* crawl() as a running program: a step that can be taken is taken.  The   *)
(* interpreter goes on to the next statement whenever the fetch, store or  *)
(* classifier call it made has returned.                                   *)
SpecLive == Init /\ [][Next]_vars /\ WF_vars(Next)

(* crawl() has returned, or an exception has left it *)
Terminated == pc \in {"done", "raised"}

\* C36: for every seed list and link graph of the model, among them graphs
\* with cycles and self-links, crawl() terminates, provided each fetch,
\* store call and classifier call returns.
C36_CrawlTerminates == <>Terminated

\* C36 witness: crawl() has returned after a crawl over a cycle of the link
\* graph: a link from a page to a crawled page was stored while the crawled
\* page links back to it, and the last invocation was stopped at a url that
\* had been visited before.
C36_Witness ==
    /\ pc = "done"
    /\ ret.why = "visited"
    /\ \E j \in 1..Len(links) :
          LET target == links[j].url
              source == pages[links[j].source_page_id]
              back == extract_links(target)
          IN  /\ target \in visited_urls
              /\ \E k \in 1..Len(back) : back[k].url = source

\* C37 (as claimed): within one run no target url is submitted to the
\* classifier more than once, neither twice for one page nor for a page
\* after it was submitted (and stored) for an earlier one, and the links
\* table never holds two rows with the same target url.
C37_NoUrlClassifiedOrStoredTwice ==
    /\ Sent =>
          LET sent == Concatenation(batches_sent) IN
          /\ \A i, j \in 1..Len(sent) : sent[i].url = sent[j].url => i = j
          /\ pc = "store_links" =>
                \A i \in 1..Len(sent), r \in 1..Len(links) :
                   links[r].url = sent[i].url => links[r].source_page_id = page_id
    /\ \A r, q \in 1..Len(links) : links[r].url = links[q].url => r = q

(* the urls of the links in a list *)
UrlsOf(ls) == { ls[i].url : i \in 1..Len(ls) }

\* C38 (as claimed): every link persisted for a page has a target url that
\* is one of the urls extracted from that page, and every link that
\* crawl_page got back from the classifier, stores and recurses into has a
\* url that was submitted to the classifier for that page: the
\* classifier's output introduces no url that was not in its input.
C38_OutputUrlsAreInputUrls ==
    /\ \A r \in 1..Len(links) :
          links[r].url \in UrlsOf(extract_links(pages[links[r].source_page_id]))
    /\ Sent => UrlsOf(analyzed_links) \subseteq UrlsOf(Concatenation(batches_sent))

====
